---- MODULE Spec2Model ----
(***************************************************************************)
(* The tree mutation engine of the draggable accordion menu.               *)
(*                                                                         *)
(* Design A (direct tree surgery): removeItemFromTree, insertItemInTree,   *)
(* isDescendant and the drag handlers that drive them.                     *)
(* Design B (flatten / rebuild): flattenWithParent, rebuildTreeFromFlat,   *)
(* the positional reorder of handleDrop, handlePromote and handleDemote.   *)
(* The page owns the tree (menuItems), takes every tree delivered to       *)
(* onItemsChange as the new tree and prunes a node on the remove button.   *)
(*                                                                         *)
(* A MenuItem {id, label, children?} is the record                         *)
(*   [id, label, has, children]                                            *)
(* where has = FALSE stands for an absent (undefined) children property    *)
(* (children is then <<>>) and has = TRUE for a children array, possibly   *)
(* the empty one.  A tree is a sequence of root MenuItems.                 *)
(***************************************************************************)
EXTENDS Integers, Sequences, FiniteSets, TLC

\* Number of distinct node ids of the trees that are explored.
NumIds == 3

Ids == 1 .. NumIds

\* null (no dragged id, no parent)
Null == 0

\* The label of the node with the given id: opaque to the engine.
Label(id) == 100 + id

MenuItem(id, label, has, children) ==
    [id |-> id, label |-> label, has |-> has, children |-> children]

RelationsA == {"before", "after", "inside"}

PositionsB == {"above", "below"}

\* Design A's dropZone state: null, or {id, position}.
NoZone == [id |-> Null, position |-> "none"]

DropZone(id, position) == [id |-> id, position |-> position]

(***************************************************************************)
(* Design A: removeItemFromTree.                                           *)
(* The result is [removed, newTree]; removed is <<>> for null and <<n>>    *)
(* for the node n.                                                         *)
(***************************************************************************)
RECURSIVE removeItemFromTree_dup(_, _)
removeItemFromTree_dup(tree, id) ==
    \* finds the node but leaves it in place
    IF tree = <<>> THEN [removed |-> <<>>, newTree |-> <<>>]
    ELSE LET item == Head(tree)
             sub  == removeItemFromTree_dup(item.children, id)
             rest == removeItemFromTree_dup(Tail(tree), id)
             here == IF item.id = id THEN <<item>> ELSE sub.removed
         IN  [removed |-> IF rest.removed # <<>> THEN rest.removed ELSE here,
              newTree |-> <<item>> \o rest.newTree]

RECURSIVE removeItemFromTree_splice(_, _)
removeItemFromTree_splice(tree, id) ==
    \* takes the node out alone: its children move up into its place
    IF tree = <<>> THEN [removed |-> <<>>, newTree |-> <<>>]
    ELSE LET item == Head(tree)
             rest == removeItemFromTree_splice(Tail(tree), id)
             sub  == removeItemFromTree_splice(item.children, id)
         IN  IF item.id = id
             THEN [removed |-> <<item>>,
                   newTree |-> item.children \o rest.newTree]
             ELSE [removed |-> IF sub.removed # <<>> THEN sub.removed
                               ELSE rest.removed,
                   newTree |->
                       <<[item EXCEPT
                            !.children = sub.newTree,
                            !.has = item.has /\ (sub.newTree # <<>>
                                                 \/ item.children = <<>>)]>>
                       \o rest.newTree]

RECURSIVE removeItemFromTree(_, _)
RECURSIVE removeReduce(_, _, _, _, _)

\* The reduce callback applied to tree[i .. Len(tree)], with the closure
\* variable `removed` and the accumulator `acc` so far.
removeReduce(tree, id, i, removed, acc) ==
    IF i > Len(tree) THEN [removed |-> removed, newTree |-> acc]
    ELSE LET item == tree[i] IN
         IF item.id = id
         THEN \* removed = {...item, children: copy or undefined}; not pushed
              removeReduce(tree, id, i + 1, <<item>>, acc)
         ELSE IF item.has /\ Len(item.children) > 0
         THEN LET r == removeItemFromTree(item.children, id)
                  kept == IF Len(r.newTree) > 0
                          THEN [item EXCEPT !.children = r.newTree]
                          ELSE [item EXCEPT !.has = FALSE, !.children = <<>>]
              IN  removeReduce(tree, id, i + 1,
                               IF r.removed # <<>> THEN r.removed ELSE removed,
                               Append(acc, kept))
         ELSE removeReduce(tree, id, i + 1, removed, Append(acc, item))

removeItemFromTree(tree, id) == removeReduce(tree, id, 1, <<>>, <<>>)

(***************************************************************************)
(* Design A: insertItemInTree.                                             *)
(***************************************************************************)
RECURSIVE insertInside_first(_, _, _)
insertInside_first(tree, item, targetId) ==
    \* the node is put in front of the target's children
    [i \in 1 .. Len(tree) |->
        LET node == tree[i] IN
        IF node.id = targetId
        THEN [node EXCEPT !.has = TRUE, !.children = <<item>> \o node.children]
        ELSE IF node.has
        THEN [node EXCEPT !.children =
                 insertInside_first(node.children, item, targetId)]
        ELSE node]

RECURSIVE insertInside(_, _, _)
\* position === "inside": tree.map(...)
insertInside(tree, item, targetId) ==
    [i \in 1 .. Len(tree) |->
        LET node == tree[i] IN
        IF node.id = targetId
        THEN [node EXCEPT !.has = TRUE, !.children = Append(node.children, item)]
        ELSE IF node.has
        THEN [node EXCEPT !.children = insertInside(node.children, item, targetId)]
        ELSE node]

RECURSIVE insertBeside_flat(_, _, _, _, _, _)
insertBeside_flat(tree, item, targetId, position, i, result) ==
    \* looks for the target among the roots only
    IF i > Len(tree) THEN result
    ELSE LET node == tree[i] IN
         insertBeside_flat(tree, item, targetId, position, i + 1,
                           IF node.id # targetId THEN Append(result, node)
                           ELSE IF position = "before"
                           THEN result \o <<item, node>>
                           ELSE result \o <<node, item>>)

RECURSIVE insertBeside(_, _, _, _, _, _)
\* position "before" / "after": the for loop over tree[i .. Len(tree)] with the
\* result so far.  The local `inserted` and the JSON.stringify comparison of the
\* recursed children only set that local, which is never read.
insertBeside(tree, item, targetId, position, i, result) ==
    IF i > Len(tree) THEN result
    ELSE LET node == tree[i] IN
         IF node.id = targetId
         THEN insertBeside(tree, item, targetId, position, i + 1,
                           IF position = "before"
                           THEN result \o <<item, node>>
                           ELSE result \o <<node, item>>)
         ELSE IF node.has /\ Len(node.children) > 0
         THEN insertBeside(tree, item, targetId, position, i + 1,
                  Append(result,
                         [node EXCEPT !.children =
                             insertBeside(node.children, item, targetId, position,
                                          1, <<>>)]))
         ELSE insertBeside(tree, item, targetId, position, i + 1,
                           Append(result, node))

insertItemInTree_swapped(tree, item, targetId, position) ==
    \* "before" and "after" taken for each other
    IF position = "inside"
    THEN insertInside(tree, item, targetId)
    ELSE insertBeside(tree, item, targetId,
                      IF position = "before" THEN "after" ELSE "before", 1, <<>>)

insertItemInTree(tree, item, targetId, position) ==
    IF position = "inside"
    THEN insertInside(tree, item, targetId)
    ELSE insertBeside(tree, item, targetId, position, 1, <<>>)

(***************************************************************************)
(* Design A: isDescendant.                                                 *)
(***************************************************************************)
RECURSIVE checkSubtree(_, _, _)
\* the loop of checkSubtree over nodes[i .. Len(nodes)]
checkSubtree(nodes, targetId, i) ==
    IF i > Len(nodes) THEN FALSE
    ELSE LET node == nodes[i] IN
         IF node.id = targetId THEN TRUE
         ELSE IF node.has /\ checkSubtree(node.children, targetId, 1) THEN TRUE
         ELSE checkSubtree(nodes, targetId, i + 1)

RECURSIVE findInChildren(_, _, _, _)
\* the loop of findInChildren over items[i .. Len(items)]
findInChildren(list, parentId, targetId, i) ==
    IF i > Len(list) THEN FALSE
    ELSE LET item == list[i] IN
         IF item.id = parentId
         THEN (IF item.has THEN checkSubtree(item.children, targetId, 1) ELSE FALSE)
         ELSE IF item.has /\ findInChildren(item.children, parentId, targetId, 1)
         THEN TRUE
         ELSE findInChildren(list, parentId, targetId, i + 1)

isDescendant_direct(tree, parentId, targetId) ==
    \* looks at the root level only and at direct children only
    \E i \in 1 .. Len(tree) :
        /\ tree[i].id = parentId
        /\ \E j \in 1 .. Len(tree[i].children) : tree[i].children[j].id = targetId

RECURSIVE isDescendant_self(_, _, _, _)
isDescendant_self(tree, parentId, targetId, under) ==
    \* the subtree check starts at the parent node itself instead of at its
    \* children: under = TRUE from the node parentId on, that node included
    \E i \in 1 .. Len(tree) :
        LET here == under \/ tree[i].id = parentId
        IN  \/ here /\ tree[i].id = targetId
            \/ isDescendant_self(tree[i].children, parentId, targetId, here)

isDescendant_nonstrict(tree, parentId, targetId) ==
    isDescendant_self(tree, parentId, targetId, FALSE)

isDescendant(tree, parentId, targetId) ==
    findInChildren(tree, parentId, targetId, 1)

(***************************************************************************)
(* The page: removeItemById (the remove button).                           *)
(***************************************************************************)
RECURSIVE removeItemById(_, _)
removeItemById(list, id) ==
    IF list = <<>> THEN <<>>
    ELSE LET item == Head(list)
             rest == removeItemById(Tail(list), id)
         IN  IF item.id = id THEN rest
             ELSE <<IF item.has
                    THEN [item EXCEPT !.children = removeItemById(item.children, id)]
                    ELSE item>> \o rest

(***************************************************************************)
(* Design B: flattenWithParent and rebuildTreeFromFlat.                    *)
(* A FlatItem is a MenuItem (its children property included) with a        *)
(* parentId; flat lists are indexed from 1 here and from 0 in the code.    *)
(***************************************************************************)
FlatItem(item, parentId) ==
    [id |-> item.id, label |-> item.label, has |-> item.has,
     children |-> item.children, parentId |-> parentId]

RECURSIVE flattenWithParent_grand(_, _)
flattenWithParent_grand(list, parentId) ==
    \* hands the children the parent's own parentId
    IF list = <<>> THEN <<>>
    ELSE LET item == Head(list) IN
         <<FlatItem(item, parentId)>>
         \o (IF item.has THEN flattenWithParent_grand(item.children, parentId)
             ELSE <<>>)
         \o flattenWithParent_grand(Tail(list), parentId)

RECURSIVE flattenWithParent(_, _)
flattenWithParent(list, parentId) ==
    IF list = <<>> THEN <<>>
    ELSE LET item == Head(list) IN
         <<FlatItem(item, parentId)>>
         \o (IF item.has THEN flattenWithParent(item.children, item.id) ELSE <<>>)
         \o flattenWithParent(Tail(list), parentId)

\* itemMap after both forEach passes: for every id of the list a shell with the
\* label written last and, as children, references (ids) to the shells of the
\* entries that name it as parentId, in list order.
itemMap(flatList) ==
    LET keys == {flatList[i].id : i \in 1 .. Len(flatList)}
        lastOf(k) == CHOOSE i \in 1 .. Len(flatList) :
                        /\ flatList[i].id = k
                        /\ \A j \in 1 .. Len(flatList) :
                              flatList[j].id = k => j <= i
        attached(k) == SelectSeq(flatList,
                           LAMBDA e : e.parentId # Null /\ e.parentId = k)
    IN  [k \in keys |->
            [label |-> flatList[lastOf(k)].label,
             children |-> LET mine == attached(k)
                          IN  [j \in 1 .. Len(mine) |-> mine[j].id]]]

RECURSIVE shellOf(_, _)
\* the object graph below one shell of itemMap, read out as a tree
shellOf(map, id) ==
    MenuItem(id, map[id].label, TRUE,
             [j \in 1 .. Len(map[id].children) |-> shellOf(map, map[id].children[j])])

rebuildTreeFromFlat(flatList) ==
    LET map == itemMap(flatList)
        roots == SelectSeq(flatList, LAMBDA e : e.parentId = Null)
    IN  [i \in 1 .. Len(roots) |-> shellOf(map, roots[i].id)]

\* Array.prototype.findIndex on x.id === id: 0-based, -1 when there is none
findIndex(flatList, id) ==
    IF \E i \in 1 .. Len(flatList) : flatList[i].id = id
    THEN (CHOOSE i \in 1 .. Len(flatList) :
             /\ flatList[i].id = id
             /\ \A j \in 1 .. i - 1 : flatList[j].id # id) - 1
    ELSE -1

\* list.splice(idx, 1) on a copy: the list without its entry at 0-based idx
spliceOut(list, idx) ==
    [i \in 1 .. Len(list) - 1 |-> IF i <= idx THEN list[i] ELSE list[i + 1]]

\* list.splice(idx, 0, entry) on a copy (idx beyond the end appends)
spliceIn(list, idx, entry) ==
    LET at == IF idx > Len(list) THEN Len(list) ELSE idx
    IN  [i \in 1 .. Len(list) + 1 |->
            IF i <= at THEN list[i]
            ELSE IF i = at + 1 THEN entry
            ELSE list[i - 1]]

reorderFlat_adopt(flatList, draggedIdx, targetIdx, position) ==
    \* the dragged entry takes the target's parentId along with its place
    LET draggedEntry == [flatList[draggedIdx + 1] EXCEPT
                            !.parentId = flatList[targetIdx + 1].parentId]
        without == spliceOut(flatList, draggedIdx)
        insertIdx == IF position = "above" THEN targetIdx
                     ELSE targetIdx + (IF draggedIdx < targetIdx THEN 0 ELSE 1)
    IN  spliceIn(without,
                 IF insertIdx > draggedIdx THEN insertIdx - 1 ELSE insertIdx,
                 draggedEntry)

\* newFlatList of Design B's handleDrop, from the 0-based indices of the
\* dragged and the target entry
reorderFlat(flatList, draggedIdx, targetIdx, position) ==
    LET draggedEntry == flatList[draggedIdx + 1]
        without == spliceOut(flatList, draggedIdx)
        insertIdx == IF position = "above" THEN targetIdx
                     ELSE targetIdx + (IF draggedIdx < targetIdx THEN 0 ELSE 1)
    IN  spliceIn(without,
                 IF insertIdx > draggedIdx THEN insertIdx - 1 ELSE insertIdx,
                 draggedEntry)

(***************************************************************************)
(* Reading a tree.                                                         *)
(***************************************************************************)
RECURSIVE PreOrder(_)
\* the ids of a tree in the order the component renders them
PreOrder(list) ==
    IF list = <<>> THEN <<>>
    ELSE <<Head(list).id>> \o PreOrder(Head(list).children) \o PreOrder(Tail(list))

TreeIds(tree) == LET ids == PreOrder(tree) IN {ids[i] : i \in 1 .. Len(ids)}

\* how often an id occurs in a tree
Occurrences(tree, id) ==
    LET ids == PreOrder(tree) IN Cardinality({i \in 1 .. Len(ids) : ids[i] = id})

UniqueIds(tree) == \A id \in Ids : Occurrences(tree, id) <= 1

RootIds(list) == [i \in 1 .. Len(list) |-> list[i].id]

RECURSIVE KidsIn(_, _)
\* the ids of the children of the node p, in sibling order
KidsIn(list, p) ==
    IF list = <<>> THEN <<>>
    ELSE (IF Head(list).id = p THEN RootIds(Head(list).children)
          ELSE KidsIn(Head(list).children, p))
         \o KidsIn(Tail(list), p)

\* the sibling list below p; below Null are the roots
Siblings(tree, p) == IF p = Null THEN RootIds(tree) ELSE KidsIn(tree, p)

InSeq(seq, x) == \E i \in 1 .. Len(seq) : seq[i] = x

\* the parent of a node of a tree with unique ids; Null for a root
ParentOf(tree, id) ==
    IF \E p \in Ids : InSeq(KidsIn(tree, p), id)
    THEN CHOOSE p \in Ids : InSeq(KidsIn(tree, p), id)
    ELSE Null

RECURSIVE DepthIn(_, _, _)
\* the level of a node of a tree with unique ids: 0 for a root, -1 when absent
DepthIn(list, id, level) ==
    IF list = <<>> THEN -1
    ELSE IF Head(list).id = id THEN level
    ELSE LET below == DepthIn(Head(list).children, id, level + 1)
         IN  IF below >= 0 THEN below ELSE DepthIn(Tail(list), id, level)

Depth(tree, id) == DepthIn(tree, id, 0)

RECURSIVE Below(_, _, _)
\* the ids strictly below the nodes named id (inside = TRUE once under one)
Below(list, id, inside) ==
    IF list = <<>> THEN {}
    ELSE (IF inside THEN {Head(list).id} ELSE {})
         \cup Below(Head(list).children, id, inside \/ Head(list).id = id)
         \cup Below(Tail(list), id, inside)

Descendants(tree, id) == Below(tree, id, FALSE)

RECURSIVE NoSelfNesting(_, _)
\* no node lies below a node of the same id
NoSelfNesting(list, above) ==
    \A i \in 1 .. Len(list) :
        /\ list[i].id \notin above
        /\ NoSelfNesting(list[i].children, above \cup {list[i].id})

RECURSIVE Norm(_)
\* a tree with every absent children list read as the empty one
Norm(list) ==
    [i \in 1 .. Len(list) |->
        MenuItem(list[i].id, list[i].label, TRUE, Norm(list[i].children))]

\* the seq without its (first) entry x
Without(seq, x) == SelectSeq(seq, LAMBDA y : y # x)

\* 1-based index of x in a sequence that holds it
IndexOf(seq, x) == CHOOSE i \in 1 .. Len(seq) : seq[i] = x

(***************************************************************************)
(* The trees that are explored.                                            *)
(***************************************************************************)
RECURSIVE Forests(_, _)
\* every tree whose ids are exactly S, each once; leaf lists the ways a
\* childless node is written (FALSE: no children property, TRUE: children [])
Forests(S, leaf) ==
    IF S = {} THEN {<<>>}
    ELSE UNION {
           UNION {
             UNION {
               { <<MenuItem(r, Label(r), h, kids)>> \o rest :
                    h \in (IF kids = <<>> THEN leaf ELSE {TRUE}),
                    rest \in Forests(S \ (D \cup {r}), leaf) }
               : kids \in Forests(D, leaf) }
             : D \in SUBSET (S \ {r}) }
           : r \in S }

\* the page writes a childless node without a children property
PageTrees == Forests(Ids, {FALSE})

(***************************************************************************)
(* State.                                                                  *)
(*   items          the page's menuItems, the `items` prop of the menu     *)
(*   draggedId, dropZone                  Design A's component state       *)
(*   draggedItem, dragPosition            Design B's component state       *)
(*   last           the handler that ran last on the tree: its name, the   *)
(*                  ids and the position it worked with, and whether it    *)
(*                  called onItemsChange                                   *)
(*   call           one call of an engine function on its own: inputs,     *)
(*                  progress and result                                    *)
(* Design A's dropZone.level and Design B's dragOverItem are left out:     *)
(* only the rendering reads them.                                          *)
(***************************************************************************)
VARIABLES items, draggedId, dropZone, draggedItem, dragPosition, last, call

vars == <<items, draggedId, dropZone, draggedItem, dragPosition, last, call>>

varsA == <<draggedId, dropZone>>

varsB == <<draggedItem, dragPosition>>

Idle == [op |-> "none", id |-> Null, target |-> Null, position |-> "none",
         called |-> FALSE]

Ran(op, id, target, position, called) ==
    [op |-> op, id |-> id, target |-> target, position |-> position,
     called |-> called]

NoCall == [fn |-> "none"]

InitMenu ==
    /\ items \in PageTrees
    /\ draggedId = Null
    /\ dropZone = NoZone
    /\ draggedItem = Null
    /\ dragPosition = "none"
    /\ last = Idle
    /\ call = NoCall

(***************************************************************************)
(* The page.                                                               *)
(***************************************************************************)
\* the remove button of a rendered node
handleRemoveItem(id) ==
    /\ id \in TreeIds(items)
    /\ items' = removeItemById(items, id)
    /\ last' = Idle
    /\ UNCHANGED <<varsA, varsB, call>>

(***************************************************************************)
(* Design A: the drag handlers.                                            *)
(***************************************************************************)
handleDragStartA(id) ==
    /\ id \in TreeIds(items)
    /\ draggedId' = id
    /\ last' = Idle
    /\ UNCHANGED <<items, dropZone, varsB, call>>

handleDragEndA ==
    /\ draggedId' = Null
    /\ dropZone' = NoZone
    /\ last' = Idle
    /\ UNCHANGED <<items, varsB, call>>

\* the pointer's place on the row decides the position: any of the three
handleDragOverA(id, position) ==
    /\ id \in TreeIds(items)
    /\ dropZone' = IF draggedId = id THEN dropZone ELSE DropZone(id, position)
    /\ last' = Idle
    /\ UNCHANGED <<items, draggedId, varsB, call>>

handleDropA ==
    LET r == removeItemFromTree(items, draggedId)
        accepted ==
            /\ ~(draggedId = Null \/ dropZone = NoZone \/ draggedId = dropZone.id)
            /\ ~isDescendant(items, draggedId, dropZone.id)
            /\ r.removed # <<>>
    IN  /\ items' = IF accepted
                    THEN insertItemInTree(r.newTree, r.removed[1], dropZone.id,
                                          dropZone.position)
                    ELSE items
        /\ last' = Ran("handleDrop", draggedId, dropZone.id, dropZone.position,
                       accepted)
        /\ draggedId' = Null
        /\ dropZone' = NoZone
        /\ UNCHANGED <<varsB, call>>

NextA ==
    \/ \E id \in Ids : handleDragStartA(id)
    \/ \E id \in Ids, position \in RelationsA : handleDragOverA(id, position)
    \/ handleDragEndA
    \/ handleDropA
    \/ \E id \in Ids : handleRemoveItem(id)

\* Design A's menu on the page
SpecA == InitMenu /\ [][NextA]_vars

(***************************************************************************)
(* Design B: the drag handlers and the promote / demote buttons.           *)
(***************************************************************************)
handleDragStartB(id) ==
    /\ id \in TreeIds(items)
    /\ draggedItem' = id
    /\ last' = Idle
    /\ UNCHANGED <<items, dragPosition, varsA, call>>

\* the pointer's half of the row decides the position
handleDragOverB(id, position) ==
    /\ id \in TreeIds(items)
    /\ dragPosition' = position
    /\ last' = Idle
    /\ UNCHANGED <<items, draggedItem, varsA, call>>

handleDragLeaveB ==
    /\ dragPosition' = "none"
    /\ last' = Idle
    /\ UNCHANGED <<items, draggedItem, varsA, call>>

handleDragEndB ==
    /\ draggedItem' = Null
    /\ dragPosition' = "none"
    /\ last' = Idle
    /\ UNCHANGED <<items, varsA, call>>

handleDropB(targetId) ==
    LET flatList == flattenWithParent(items, Null)
        draggedIdx == findIndex(flatList, draggedItem)
        targetIdx == findIndex(flatList, targetId)
        accepted == /\ draggedItem # Null /\ draggedItem # targetId
                    /\ draggedIdx # -1 /\ targetIdx # -1
    IN  /\ targetId \in TreeIds(items)
        /\ items' = IF accepted
                    THEN rebuildTreeFromFlat(
                             reorderFlat(flatList, draggedIdx, targetIdx,
                                         dragPosition))
                    ELSE items
        /\ last' = Ran("handleDrop", draggedItem, targetId, dragPosition, accepted)
        /\ draggedItem' = Null
            /\ dragPosition' = "none"
        /\ UNCHANGED <<varsA, call>>

promoteFlat_end(flatList, id) ==
    \* moves the promoted entry to the end of the list as well
    LET idx == findIndex(flatList, id) + 1
        parentIdx == findIndex(flatList, flatList[idx].parentId) + 1
        entry == [flatList[idx] EXCEPT !.parentId =
                     IF parentIdx = 0 THEN Null
                     ELSE flatList[parentIdx].parentId]
    IN  Append(spliceOut(flatList, idx - 1), entry)

promoteFlat_root(flatList, id) ==
    \* sends the entry to the root level from whatever depth
    LET idx == findIndex(flatList, id) + 1
    IN  [flatList EXCEPT ![idx].parentId = Null]

\* flatList after handlePromote's assignment to item.parentId
promoteFlat(flatList, id) ==
    LET idx == findIndex(flatList, id) + 1
        parentIdx == findIndex(flatList, flatList[idx].parentId) + 1
    IN  [flatList EXCEPT ![idx].parentId =
            IF parentIdx = 0 THEN Null ELSE flatList[parentIdx].parentId]

handlePromote(id) ==
    LET flatList == flattenWithParent(items, Null)
        idx == findIndex(flatList, id) + 1
        accepted == idx # 0 /\ flatList[idx].parentId # Null
    IN  /\ items' = IF accepted
                    THEN rebuildTreeFromFlat(promoteFlat(flatList, id))
                    ELSE items
        /\ last' = Ran("handlePromote", id, Null, "none", accepted)
        /\ UNCHANGED <<varsA, varsB, call>>

demoteFlat_next(flatList, itemIdx) ==
    \* hands the entry to the entry after it, when there is one
    LET other == IF itemIdx + 2 <= Len(flatList) THEN itemIdx + 2 ELSE itemIdx
    IN  [flatList EXCEPT ![itemIdx + 1].parentId = flatList[other].id,
                         ![other].has = TRUE]

demoteFlat_sibling(flatList, itemIdx) ==
    \* hands the entry to the nearest entry before it that has its parentId
    LET item == flatList[itemIdx + 1]
        sibs == {j \in 1 .. itemIdx : flatList[j].parentId = item.parentId}
        prev == IF sibs = {} THEN itemIdx
                ELSE CHOOSE j \in sibs : \A k \in sibs : k <= j
    IN  [flatList EXCEPT ![itemIdx + 1].parentId = flatList[prev].id,
                         ![prev].has = TRUE]

\* flatList after handleDemote's assignments to item.parentId and
\* prevItem.children, for the 0-based itemIdx > 0
demoteFlat(flatList, itemIdx) ==
    LET prevItem == flatList[itemIdx]
    IN  [flatList EXCEPT ![itemIdx + 1].parentId = prevItem.id,
                         ![itemIdx].has = TRUE]

handleDemote(id) ==
    LET flatList == flattenWithParent(items, Null)
        itemIdx == findIndex(flatList, id)
        accepted == itemIdx > 0
    IN  /\ items' = IF accepted
                    THEN rebuildTreeFromFlat(demoteFlat(flatList, itemIdx))
                    ELSE items
        /\ last' = Ran("handleDemote", id, Null, "none", accepted)
        /\ UNCHANGED <<varsA, varsB, call>>

\* The promote and demote handlers are taken with any id, as their contract
\* is stated for any id; the drag handlers and the remove button belong to a
\* rendered row.
NextB ==
    \/ \E id \in Ids : handleDragStartB(id)
    \/ \E id \in Ids, position \in PositionsB : handleDragOverB(id, position)
    \/ handleDragLeaveB
    \/ handleDragEndB
    \/ \E targetId \in Ids : handleDropB(targetId)
    \/ \E id \in Ids : handlePromote(id)
    \/ \E id \in Ids : handleDemote(id)
    \/ \E id \in Ids : handleRemoveItem(id)

\* Design B's menu on the page
SpecB == InitMenu /\ [][NextB]_vars

(***************************************************************************)
(* The engine's functions called on their own.                             *)
(***************************************************************************)
\* the component state of a menu that is not driven
NoMenu ==
    /\ items = <<>>
    /\ draggedId = Null
    /\ dropZone = NoZone
    /\ draggedItem = Null
    /\ dragPosition = "none"
    /\ last = Idle

\* every single node, with its subtree, whose ids are exactly T
NodesOn(T) ==
    UNION {
      UNION {
        {MenuItem(r, Label(r), h, kids) :
            h \in (IF kids = <<>> THEN BOOLEAN ELSE {TRUE})}
        : kids \in Forests(T \ {r}, BOOLEAN) }
      : r \in T }

\* insertItemInTree(tree, item, targetId, position) for any tree with unique
\* ids (a childless node written either way) and any node, with its subtree,
\* none of whose ids is in the tree
InitInsert ==
    /\ NoMenu
    /\ \E S \in SUBSET Ids :
       \E T \in (SUBSET (Ids \ S)) \ {{}} :
          LET trees == Forests(S, BOOLEAN)
              nodes == NodesOn(T)
          IN  \E tree \in trees, item \in nodes :
              \E targetId \in Ids, position \in RelationsA :
                 call = [fn |-> "insertItemInTree", tree |-> tree, item |-> item,
                         targetId |-> targetId, position |-> position,
                         done |-> FALSE, result |-> <<>>]

insertCall ==
    /\ call.fn = "insertItemInTree"
    /\ ~call.done
    /\ call' = [call EXCEPT
                  !.done = TRUE,
                  !.result = insertItemInTree(call.tree, call.item,
                                              call.targetId, call.position)]
    /\ UNCHANGED <<items, varsA, varsB, last>>

SpecInsert == InitInsert /\ [][insertCall]_vars

\* the orders of the ids of S
Orders(S) ==
    {f \in [1 .. Cardinality(S) -> S] :
        \A i, j \in 1 .. Cardinality(S) : f[i] = f[j] => i = j}

\* the flat list of the ids in the given order with the given parentIds
FlatListOf(order, parents) ==
    [i \in 1 .. Len(order) |->
        FlatItem(MenuItem(order[i], Label(order[i]), FALSE, <<>>),
                 parents[order[i]])]

\* rebuildTreeFromFlat(flattenWithParent(tree)) for any tree with unique ids,
\* and rebuildTreeFromFlat(flatList) for any flat list with unique ids, its
\* parentIds naming any id or null
InitFlat ==
    /\ NoMenu
    /\ \/ \E S \in SUBSET Ids :
          \E tree \in Forests(S, BOOLEAN) :
             call = [fn |-> "roundTrip", pc |-> "tree", tree |-> tree,
                     flatList |-> <<>>, result |-> <<>>, threw |-> FALSE]
       \/ \E S \in SUBSET Ids :
          \E order \in Orders(S), parents \in [S -> Ids \cup {Null}] :
             call = [fn |-> "rebuildTreeFromFlat", pc |-> "flat", tree |-> <<>>,
                     flatList |-> FlatListOf(order, parents),
                     result |-> <<>>, threw |-> FALSE]

flattenCall ==
    /\ call.fn = "roundTrip"
    /\ call.pc = "tree"
    /\ call' = [call EXCEPT !.pc = "flat",
                            !.flatList = flattenWithParent(call.tree, Null)]
    /\ UNCHANGED <<items, varsA, varsB, last>>

\* rebuildTreeFromFlat has no throw and no call that can throw: it returns
rebuildCall ==
    /\ call.fn \in {"roundTrip", "rebuildTreeFromFlat"}
    /\ call.pc = "flat"
    /\ call' = [call EXCEPT !.pc = "done",
                            !.result = rebuildTreeFromFlat(call.flatList),
                            !.threw = FALSE]
    /\ UNCHANGED <<items, varsA, varsB, last>>

NextFlat == flattenCall \/ rebuildCall

SpecFlat == InitFlat /\ [][NextFlat]_vars

(***************************************************************************)
(* Properties.                                                             *)
(***************************************************************************)
\* the step is a run of handleDrop
DropStep == last'.op = "handleDrop"

\* the ids of a flat list, in its order
FlatIds(flatList) == [i \in 1 .. Len(flatList) |-> flatList[i].id]

\* C1: Design A conservation.  Every drop of a dragged node of the tree on a
\* target that is in the tree, is not the dragged node and does not lie in
\* its subtree, with any of before / after / inside, is accepted and
\* delivers a tree that holds every id exactly as often as the tree before
\* it: once.
C1_DropConservesIds ==
    [][ ( /\ DropStep
          /\ UniqueIds(items)
          /\ draggedId \in TreeIds(items)
          /\ dropZone.id \in TreeIds(items)
          /\ dropZone.id # draggedId
          /\ dropZone.id \notin Descendants(items, draggedId) )
        => ( /\ last'.called
             /\ UniqueIds(items')
             /\ \A id \in Ids :
                   Occurrences(items', id) = Occurrences(items, id) )
      ]_vars

\* C1 witness: an accepted drop has put the dragged node inside a target
\* that itself has a parent, and all ids are still there.
C1_Witness ==
    /\ last.op = "handleDrop"
    /\ last.called
    /\ last.position = "inside"
    /\ TreeIds(items) = Ids
    /\ ParentOf(items, last.id) = last.target
    /\ Depth(items, last.id) = 2

\* C2: Design A cycle gate.  A drop whose target is the dragged node itself
\* or a strict descendant of it is rejected whatever the relation:
\* onItemsChange is not called and the tree stays as it is; and no tree that
\* is ever reached has a node below a node of the same id.
C2_CycleGate ==
    /\ [][ ( /\ DropStep
             /\ draggedId # Null
             /\ dropZone # NoZone
             /\ \/ dropZone.id = draggedId
                \/ dropZone.id \in Descendants(items, draggedId) )
           => (items' = items /\ ~last'.called)
         ]_vars
    /\ [] NoSelfNesting(items, {})

\* C2 witness: a drop "before" a grandchild of the dragged node was rejected.
C2_Witness ==
    /\ last.op = "handleDrop"
    /\ ~last.called
    /\ last.position = "before"
    /\ last.id \in TreeIds(items)
    /\ last.target \in Descendants(items, last.id)
    /\ Depth(items, last.target) = Depth(items, last.id) + 2

\* C3: Design B reorder placement.  For a dragged and a target entry that
\* are both in the flat list and differ, the new flat list has the dragged
\* entry immediately before the target for "above" and immediately after it
\* for "below", wherever the dragged entry was, and keeps the order of all
\* other entries.
C3_ReorderPlacement ==
    [][ ( /\ DropStep
          /\ last'.called
          /\ dragPosition \in PositionsB )
        => LET flatList == flattenWithParent(items, Null)
               newFlat == FlatIds(reorderFlat(flatList,
                                              findIndex(flatList, draggedItem),
                                              findIndex(flatList, last'.target),
                                              dragPosition))
               d == IndexOf(newFlat, draggedItem)
               t == IndexOf(newFlat, last'.target)
           IN  /\ dragPosition = "above" => d + 1 = t
               /\ dragPosition = "below" => d = t + 1
               /\ Without(newFlat, draggedItem)
                     = Without(FlatIds(flatList), draggedItem)
      ]_vars

\* a handler has run with an id that is not in the tree it ran on
StaleStep ==
    /\ last'.op \in {"handleDrop", "handlePromote", "handleDemote"}
    /\ \/ last'.id # Null /\ last'.id \notin TreeIds(items)
       \/ last'.target # Null /\ last'.target \notin TreeIds(items)

\* C4: stale-id robustness.  A drop whose dragged id or target id is no
\* longer in the tree, and a promote or demote of an id that is not in the
\* tree, leave the tree as it is.
C4_StaleIdIsNoOp == [][StaleStep => items' = items]_vars

\* C5: round trip.  rebuildTreeFromFlat(flattenWithParent(T)) is T, with an
\* absent children list and an empty one taken as the same: same ids, labels,
\* parents, sibling orders and root order.
C5_RoundTrip ==
    (call.fn = "roundTrip" /\ call.pc = "done")
        => Norm(call.result) = Norm(call.tree)

\* C5 witness: the round trip of a chain of three levels whose leaf has no
\* children property has returned.
C5_Witness ==
    /\ call.fn = "roundTrip"
    /\ call.pc = "done"
    /\ TreeIds(call.tree) = Ids
    /\ \E id \in Ids : Depth(call.tree, id) = 2
    /\ call.result # call.tree
    /\ PreOrder(call.result) = PreOrder(call.tree)

\* an entry names a parentId that is the id of no entry
Dangling(flatList) ==
    \E i \in 1 .. Len(flatList) :
        /\ flatList[i].parentId # Null
        /\ \A j \in 1 .. Len(flatList) : flatList[j].id # flatList[i].parentId

\* C6: dangling parent rejection.  rebuildTreeFromFlat signals an error for
\* a flat list with an entry whose parentId is the id of no entry.
C6_DanglingParentRejected ==
    (call.fn = "rebuildTreeFromFlat" /\ call.pc = "done"
     /\ Dangling(call.flatList))
        => call.threw

\* the sibling right before the node id of the tree; Null when it is the first
PrecedingSibling(tree, id) ==
    LET sibs == Siblings(tree, ParentOf(tree, id))
        k == IndexOf(sibs, id)
    IN  IF k > 1 THEN sibs[k - 1] ELSE Null

\* C7: demote moves exactly one level, to the preceding sibling.  For a node
\* with a preceding sibling S, handleDemote makes S its parent and its depth
\* one more than before, whatever children S has.
C7_DemoteUnderPrecedingSibling ==
    [][ ( /\ last'.op = "handleDemote"
          /\ last'.id \in TreeIds(items)
          /\ PrecedingSibling(items, last'.id) # Null )
        => ( /\ ParentOf(items', last'.id) = PrecedingSibling(items, last'.id)
             /\ Depth(items', last'.id) = Depth(items, last'.id) + 1 )
      ]_vars

\* insertItemInTree has returned
Inserted == call.fn = "insertItemInTree" /\ call.done

\* the ids of the inserted node and of its subtree
ItemIds == TreeIds(<<call.item>>)

\* every sibling list of the result but the one below p is the one of the
\* tree, or the one the inserted node brought along
OthersKept(p) ==
    \A q \in (Ids \cup {Null}) \ {p} :
        Siblings(call.result, q) =
            IF q \in ItemIds THEN Siblings(<<call.item>>, q)
            ELSE Siblings(call.tree, q)

\* C8: insert before / after.  With the target in the tree, at any depth,
\* the node becomes a sibling of the target in the target's own sibling
\* list, immediately before it for "before" and immediately after it for
\* "after", and every other node keeps its parent and its place among its
\* siblings.
C8_InsertBeside ==
    (Inserted /\ call.position \in {"before", "after"}
     /\ call.targetId \in TreeIds(call.tree))
        => LET p == ParentOf(call.tree, call.targetId)
               sibs == Siblings(call.tree, p)
               k == IndexOf(sibs, call.targetId)
               cut == IF call.position = "before" THEN k - 1 ELSE k
           IN  /\ Siblings(call.result, p) =
                     SubSeq(sibs, 1, cut) \o <<call.item.id>>
                        \o SubSeq(sibs, cut + 1, Len(sibs))
               /\ OthersKept(p)
               /\ UniqueIds(call.result)
               /\ TreeIds(call.result) = TreeIds(call.tree) \cup ItemIds

\* C8 witness: node 3 inserted "after" the root 1 of the roots <<1, 2>> gives
\* the roots <<1, 3, 2>>.
C8_Witness ==
    /\ Inserted
    /\ call.position = "after"
    /\ call.targetId = 1
    /\ RootIds(call.tree) = <<1, 2>>
    /\ call.item.id = 3
    /\ RootIds(call.result) = <<1, 3, 2>>

\* C9: insert inside.  With the target in the tree, at any depth, the node
\* becomes the last child of the target, after the children it has (the
\* target gets a children list when it had none), and every other node
\* keeps its parent and its place among its siblings.
C9_InsertInside ==
    (Inserted /\ call.position = "inside"
     /\ call.targetId \in TreeIds(call.tree))
        => /\ Siblings(call.result, call.targetId) =
                 Append(Siblings(call.tree, call.targetId), call.item.id)
           /\ OthersKept(call.targetId)
           /\ UniqueIds(call.result)
           /\ TreeIds(call.result) = TreeIds(call.tree) \cup ItemIds

\* C9 witness: node 3 inserted inside node 1, which has the child 2, is its
\* last child.
C9_Witness ==
    /\ Inserted
    /\ call.position = "inside"
    /\ call.targetId = 1
    /\ Siblings(call.tree, 1) = <<2>>
    /\ call.item.id = 3
    /\ Siblings(call.result, 1) = <<2, 3>>

\* C10: copies of the inserted node.  For every relation the result holds
\* the node exactly once when the target is in the tree; when it is not, the
\* result holds it not at all and is the tree: same ids, parents and sibling
\* orders.
C10_InsertCopyCount ==
    Inserted
        => IF call.targetId \in TreeIds(call.tree)
           THEN Occurrences(call.result, call.item.id) = 1
           ELSE /\ Occurrences(call.result, call.item.id) = 0
                /\ Norm(call.result) = Norm(call.tree)

\* C10 witness: an insert "before" a target that is not in a tree of two
\* levels has returned that tree.
C10_Witness ==
    /\ Inserted
    /\ call.position = "before"
    /\ call.targetId \notin TreeIds(call.tree)
    /\ \E id \in Ids : Depth(call.tree, id) = 1
    /\ call.result = call.tree

(***************************************************************************)
(* isDescendant called on its own.                                         *)
(***************************************************************************)
\* isDescendant(tree, ancestorId, candidateId) for any tree with unique ids
\* (a childless node written either way) and any two ids
InitDescendant ==
    /\ NoMenu
    /\ \E S \in SUBSET Ids :
       \E tree \in Forests(S, BOOLEAN) :
       \E ancestorId \in Ids, candidateId \in Ids :
          call = [fn |-> "isDescendant", tree |-> tree,
                  ancestorId |-> ancestorId, candidateId |-> candidateId,
                  done |-> FALSE, result |-> FALSE]

descendantCall ==
    /\ call.fn = "isDescendant"
    /\ ~call.done
    /\ call' = [call EXCEPT
                  !.done = TRUE,
                  !.result = isDescendant(call.tree, call.ancestorId,
                                          call.candidateId)]
    /\ UNCHANGED <<items, varsA, varsB, last>>

SpecDescendant == InitDescendant /\ [][descendantCall]_vars

\* C11: ancestry check.  isDescendant(tree, ancestorId, candidateId) is true
\* exactly when candidateId names a node strictly below the node ancestorId;
\* so it is false when the two ids are equal, when ancestorId is not in the
\* tree and when the node ancestorId has no children.
C11_AncestryCheck ==
    (call.fn = "isDescendant" /\ call.done)
        => /\ call.result
                <=> call.candidateId \in Descendants(call.tree, call.ancestorId)
           /\ call.candidateId = call.ancestorId => ~call.result
           /\ call.ancestorId \notin TreeIds(call.tree) => ~call.result
           /\ Siblings(call.tree, call.ancestorId) = <<>> => ~call.result

\* C11 witness: in the chain 1 > 2 > 3 the check of 3 below 1 has returned
\* true.
C11_Witness ==
    /\ call.fn = "isDescendant"
    /\ call.done
    /\ Siblings(call.tree, Null) = <<1>>
    /\ Siblings(call.tree, 1) = <<2>>
    /\ Siblings(call.tree, 2) = <<3>>
    /\ call.ancestorId = 1
    /\ call.candidateId = 3
    /\ call.result

(***************************************************************************)
(* removeItemFromTree called on its own.                                   *)
(***************************************************************************)
\* removeItemFromTree(tree, id) for any tree with unique ids (a childless
\* node written either way) and any id
InitRemove ==
    /\ NoMenu
    /\ \E S \in SUBSET Ids :
       \E tree \in Forests(S, BOOLEAN) :
       \E id \in Ids :
          call = [fn |-> "removeItemFromTree", tree |-> tree, id |-> id,
                  done |-> FALSE, removed |-> <<>>, newTree |-> <<>>]

removeCall ==
    /\ call.fn = "removeItemFromTree"
    /\ ~call.done
    /\ call' = [call EXCEPT
                  !.done = TRUE,
                  !.removed = removeItemFromTree(call.tree, call.id).removed,
                  !.newTree = removeItemFromTree(call.tree, call.id).newTree]
    /\ UNCHANGED <<items, varsA, varsB, last>>

SpecRemove == InitRemove /\ [][removeCall]_vars

RECURSIVE NodesNamed(_, _)
\* the nodes of a tree that have the given id, each with its subtree
NodesNamed(list, id) ==
    IF list = <<>> THEN <<>>
    ELSE (IF Head(list).id = id THEN <<Head(list)>>
          ELSE NodesNamed(Head(list).children, id))
         \o NodesNamed(Tail(list), id)

\* C12: remove detaches the whole subtree intact.  For an id in the tree, at
\* any depth, removeItemFromTree returns the node of that id with its whole
\* subtree as it was, and a tree of exactly the nodes outside that subtree,
\* each with the parent and the place among its siblings it had (the
\* children of the removed node do not move up to its parent).
C12_RemoveDetachesSubtree ==
    (call.fn = "removeItemFromTree" /\ call.done
     /\ call.id \in TreeIds(call.tree))
        => LET gone == {call.id} \cup Descendants(call.tree, call.id)
           IN  /\ call.removed = NodesNamed(call.tree, call.id)
               /\ Len(call.removed) = 1
               /\ TreeIds(call.newTree) = TreeIds(call.tree) \ gone
               /\ UniqueIds(call.newTree)
               /\ \A q \in Ids \cup {Null} :
                     Siblings(call.newTree, q) =
                         IF q \in gone THEN <<>>
                         ELSE Without(Siblings(call.tree, q), call.id)

\* C12 witness: node 2, with its child 3, has been removed from below the
\* root 1.
C12_Witness ==
    /\ call.fn = "removeItemFromTree"
    /\ call.done
    /\ call.id = 2
    /\ Siblings(call.tree, 1) = <<2>>
    /\ Siblings(call.tree, 2) = <<3>>
    /\ RootIds(call.removed) = <<2>>
    /\ Siblings(call.removed, 2) = <<3>>
    /\ PreOrder(call.newTree) = <<1>>

(***************************************************************************)
(* Design B: promote and demote.                                           *)
(***************************************************************************)
\* the subtree of the node id, every absent children list read as empty
SubtreeOf(tree, id) == Norm(NodesNamed(tree, id))

RECURSIVE ParentPairs(_, _)
\* the pairs <<node, parent>> of the nodes of a list of siblings below p
ParentPairs(list, p) ==
    IF list = <<>> THEN {}
    ELSE {<<Head(list).id, p>>}
         \cup ParentPairs(Head(list).children, Head(list).id)
         \cup ParentPairs(Tail(list), p)

\* the parent of the node id, read off the pairs of a tree with unique ids
ParentIn(pairs, id) == (CHOOSE pair \in pairs : pair[1] = id)[2]

\* the tree has the nodes it had, and every node but id the parent it had
OtherParentsKept(before, after, id) ==
    {pair \in after : pair[1] # id} = {pair \in before : pair[1] # id}

\* C13: promote.  handlePromote of a root does not call onItemsChange and
\* leaves the tree alone; of any other node of the tree it delivers a tree
\* in which the node's parent is its former grandparent (none when the
\* former parent was a root), its depth is one less, its subtree is the one
\* it had, and every other node has the parent it had.
C13_Promote ==
    [][ (last'.op = "handlePromote" /\ last'.id \in TreeIds(items))
        => LET id == last'.id
               before == ParentPairs(items, Null)
               after == ParentPairs(items', Null)
               parent == ParentIn(before, id)
           IN  IF parent = Null
               THEN ~last'.called /\ items' = items
               ELSE /\ last'.called
                    /\ <<id, ParentIn(before, parent)>> \in after
                    /\ Depth(items', id) = Depth(items, id) - 1
                    /\ SubtreeOf(items', id) = SubtreeOf(items, id)
                    /\ OtherParentsKept(before, after, id)
      ]_vars

\* C13 witness: a promote was accepted and left its node, which was at
\* depth 2, below its former grandparent.
C13_Witness ==
    /\ last.op = "handlePromote"
    /\ last.called
    /\ TreeIds(items) = Ids
    /\ Depth(items, last.id) = 1
    /\ Len(Siblings(items, ParentOf(items, last.id))) = 2

\* C14: demote by flat-list predecessor.  handleDemote of the first entry of
\* the pre-order flat list does not call onItemsChange and leaves the tree
\* alone; of any other node of the tree it delivers a tree in which the node
\* is a child of the entry right before it in the pre-order flat list, its
\* subtree is the one it had, and every other node has the parent it had.
C14_DemoteUnderPredecessor ==
    [][ (last'.op = "handleDemote" /\ last'.id \in TreeIds(items))
        => LET id == last'.id
               order == PreOrder(items)
               k == IndexOf(order, id)
               before == ParentPairs(items, Null)
               after == ParentPairs(items', Null)
           IN  IF k = 1
               THEN ~last'.called /\ items' = items
               ELSE /\ last'.called
                    /\ <<id, order[k - 1]>> \in after
                    /\ SubtreeOf(items', id) = SubtreeOf(items, id)
                    /\ OtherParentsKept(before, after, id)
      ]_vars

\* C14 witness: a demote was accepted and left its node, with a child of its
\* own, below the entry before it.
C14_Witness ==
    /\ last.op = "handleDemote"
    /\ last.called
    /\ TreeIds(items) = Ids
    /\ ParentOf(items, last.id) # Null
    /\ Siblings(items, last.id) # <<>>

(***************************************************************************)
(* Design B: the demote button and then the promote button of one row.     *)
(***************************************************************************)
\* any tree with unique ids (a childless node written either way) and any
\* id; call keeps the tree the two handlers started from
InitSymmetry ==
    /\ \E S \in SUBSET Ids :
       \E tree \in Forests(S, BOOLEAN) :
       \E id \in Ids :
          /\ items = tree
          /\ call = [fn |-> "demoteThenPromote", tree |-> tree, id |-> id]
    /\ draggedId = Null
    /\ dropZone = NoZone
    /\ draggedItem = Null
    /\ dragPosition = "none"
    /\ last = Idle

demoteStep ==
    /\ call.fn = "demoteThenPromote"
    /\ last = Idle
    /\ handleDemote(call.id)

promoteStep ==
    /\ call.fn = "demoteThenPromote"
    /\ last.op = "handleDemote"
    /\ handlePromote(call.id)

NextSymmetry == demoteStep \/ promoteStep

SpecSymmetry == InitSymmetry /\ [][NextSymmetry]_vars

\* C15: promote / demote symmetry.  For a node X of the tree whose sibling
\* right before it has no children, handleDemote(X) and then handlePromote(X)
\* on the tree that came of it deliver the tree the two started from: the
\* same parents and the same order of siblings and of roots.
C15_DemotePromoteSymmetry ==
    ( /\ call.fn = "demoteThenPromote"
      /\ last.op = "handlePromote"
      /\ call.id \in TreeIds(call.tree)
      /\ PrecedingSibling(call.tree, call.id) # Null
      /\ Siblings(call.tree, PrecedingSibling(call.tree, call.id)) = <<>> )
        => /\ last.called
           /\ Norm(items) = Norm(call.tree)

\* C15 witness: of the three roots 1, 2, 3 the middle one was demoted and
\* promoted again.
C15_Witness ==
    /\ call.fn = "demoteThenPromote"
    /\ last.op = "handlePromote"
    /\ last.called
    /\ call.id = 2
    /\ RootIds(call.tree) = <<1, 2, 3>>
    /\ RootIds(items) = <<1, 2, 3>>

(***************************************************************************)
(* Design B: what the three operations keep.                               *)
(***************************************************************************)
\* C16: Design B's reorder never re-parents.  Whatever the dragged node, the
\* target and the position of a drop, every node of the tree, the dragged
\* one included, has in the tree after the drop the parent it had before.
C16_ReorderKeepsParents ==
    [][ DropStep
        => ParentPairs(items', Null) = ParentPairs(items, Null)
      ]_vars

\* C16 witness: a drop was accepted whose target is a child of the dragged
\* node, and the dragged node is still its parent.
C16_Witness ==
    /\ last.op = "handleDrop"
    /\ last.called
    /\ TreeIds(items) = Ids
    /\ ParentOf(items, last.target) = last.id
    /\ ParentOf(items, last.id) # Null

\* the step is a run of one of Design B's three operations on the tree
OperationStepB == last'.op \in {"handleDrop", "handlePromote", "handleDemote"}

\* C17: Design B's structural invariant.  Every tree the menu reaches from a
\* tree with unique ids has unique ids and no node below itself, and every
\* handleDrop, handlePromote and handleDemote that calls onItemsChange
\* delivers a tree that holds exactly the ids of the tree before it.
\* rebuildTreeFromFlat returns what hangs below the entries without a
\* parentId, so an entry with a dangling parentId or on a cycle of parentIds
\* would be missing from the tree.
C17_StructureKept ==
    /\ [][ (OperationStepB /\ last'.called)
           => TreeIds(items') = TreeIds(items)
         ]_vars
    /\ [] UniqueIds(items)
    /\ [] NoSelfNesting(items, {})

\* C17 witness: a demote was accepted and left its node at depth 2 in a tree
\* that has all its ids, each once.
C17_Witness ==
    /\ last.op = "handleDemote"
    /\ last.called
    /\ TreeIds(items) = Ids
    /\ UniqueIds(items)
    /\ Depth(items, last.id) = 2

====
